---- MODULE Spec2Model ----
(***************************************************************************)
(* Model of the automatic build-options selector of HTML2EXE Pro Premium   *)
(* (src/html2exe_pro_premium.py): AutoOptionsSelector.analyze_source,       *)
(* AutoOptionsSelector.get_optimal_pyinstaller_options and                  *)
(* BuildEngine._build_pyinstaller_command, over a small file system.        *)
(*                                                                         *)
(* Strings that the code inspects character by character (file names) are  *)
(* tuples of one-character strings.  Paths are tuples of components        *)
(* (os.path.join appends a component).  A directive f"--name={x}" is the   *)
(* tuple <<"--name=", x>>: the literal prefix followed by the interpolated *)
(* values.  A Python dict is a function from its keys.                     *)
(***************************************************************************)
EXTENDS Integers, Sequences, FiniteSets, TLC

\* ---------------------------------------------------------------- bounds
\* Largest number of entries directly inside the source folder.
MaxEntries == 2
\* Largest number of debounce timer threads alive at a time.
MaxTimers == 2

\* ------------------------------------------------------- program constants
\* 50 * 1024 * 1024 of analyze_source ("# 50MB").
SizeLimit == 50 * 1024 * 1024
\* read()[:1000] of analyze_source.
ReadPrefix == 1000

\* ------------------------------------------------------------ file names
html_ext == <<".", "h", "t", "m", "l">>
js_ext == <<".", "j", "s">>
map_ext == <<".", "m", "a", "p">>
ts_ext == <<".", "t", "s">>
scss_ext == <<".", "s", "c", "s", "s">>
less_ext == <<".", "l", "e", "s", "s">>

\* str.endswith(suffix)
endswith(s, suffix) ==
    /\ Len(s) >= Len(suffix)
    /\ SubSeq(s, Len(s) - Len(suffix) + 1, Len(s)) = suffix

\* str.endswith(tuple_of_suffixes)
endswith_any(s, suffixes) == \E x \in suffixes : endswith(s, x)

\* The tuple ('.map', '.ts', '.scss', '.less') of the development-file check.
dev_suffixes == {map_ext, ts_ext, scss_ext, less_ext}

\* ----------------------------------------------------------- file system
\* An entry of the source folder: its name, whether os.path.isfile holds,
\* what os.path.getsize returns, and the offset of the first occurrence of
\* "http" in its text (-1: none).
Entry(n, f, s, h) == [name |-> n, isfile |-> f, size |-> s, http |-> h]

\* The entries a source folder is populated from.
Catalog ==
    { Entry(<<"i", "n", "d", "e", "x">> \o html_ext, TRUE, 2048, 120),
      Entry(<<"a", "p", "p">> \o js_ext, TRUE, 2048, 0),
      Entry(<<"l", "i", "b">> \o js_ext, TRUE, 2048, 997),
      Entry(<<"b", "u", "n", "d", "l", "e">> \o js_ext \o map_ext, TRUE, 2048, -1),
      Entry(<<"m", "a", "i", "n">> \o ts_ext, TRUE, 4096, -1),
      Entry(<<"s", "t", "y", "l", "e">> \o scss_ext, TRUE, 1024, -1),
      Entry(<<"t", "h", "e", "m", "e">> \o less_ext, FALSE, 4096, -1),
      Entry(<<"d", "a", "t", "a", ".", "b", "i", "n">>, TRUE, 50 * 1024 * 1024, -1),
      Entry(<<"v", "i", "d", "e", "o", ".", "b", "i", "n">>, TRUE, 60 * 1024 * 1024, -1) }

\* The one path of the file system that may hold a source folder, and the
\* other location strings a caller passes.
SitePath == "/workspace/test_app"
Locations == {SitePath, "https://example.com", ""}

\* What is at SitePath: nothing, a listable directory, a directory whose
\* listing is denied, or a regular file.
SrcModes == {"missing", "dir", "noperm", "notdir"}

SourceTypes == {"folder", "url", "ftp"}

\* Values a caller gives the fields of an AppConfig.
AppNames == {"MyHTMLApp", "TestApp"}
OutputDirs == {"dist", "test_dist"}
IconPath == "app.ico"
IconPaths == {"", IconPath}
ConfigPaths == {SitePath, "https://example.com"}
\* (onefile, upx_compress, strip_debug, debug) as a caller sets them: the
\* defaults of BuildConfig, and every one of them flipped.
BuildFlags ==
    { [onefile |-> TRUE, upx_compress |-> FALSE, strip_debug |-> TRUE, debug |-> FALSE],
      [onefile |-> FALSE, upx_compress |-> TRUE, strip_debug |-> FALSE, debug |-> TRUE] }

\* sys.platform
Platforms == {"win32", "linux"}

VARIABLES
    srcMode,    \* what is at SitePath
    srcFiles,   \* the entries directly inside SitePath
    iconExists, \* whether a file exists at IconPath
    writable,   \* whether new directories can be created
    dirs,       \* the directories that exist under the output directories
    platform,   \* sys.platform
    config,     \* the AppConfig of the caller
    ret,        \* the last call and what it returned or raised
    kept,       \* an earlier call the caller has kept the result of
    threads,    \* the calls in progress on concurrent threads
    engine,     \* the BuildEngine.build call in progress and what it returned
    outputs,    \* what builds have written below the output directory
    gui,        \* the variables of the ModernGUI widgets and its quick build
    handler     \* the LiveReloadHandler, its timers and the window

fsvars == <<srcMode, srcFiles, iconExists, writable, dirs, platform>>
\* The state of the machinery around the selector.
machines == <<threads, engine, outputs, gui, handler>>
\* What the steps of one of them leave alone.
aroundThreads == <<engine, outputs, gui, handler>>
aroundEngine == <<threads, gui, handler>>
aroundGui == <<threads, engine, outputs, handler>>
aroundHandler == <<threads, engine, outputs, gui>>
vars == <<srcMode, srcFiles, iconExists, writable, dirs, platform, config, ret, kept,
          machines>>

NoCall == [op |-> "none"]

\* os.path.exists(path)
os_path_exists(path) ==
    \/ path = SitePath /\ srcMode # "missing"
    \/ path = IconPath /\ iconExists
    \/ path \in outputs.icons

\* os.listdir(path) succeeds (otherwise it raises OSError)
os_listdir_ok(path) == path = SitePath /\ srcMode = "dir"

\* os.listdir(path), when it succeeds
os_listdir(path) == srcFiles

\* sum(os.path.getsize(...) for f in ... if os.path.isfile(...))
RECURSIVE SumSizes(_)
SumSizes(S) ==
    IF S = {} THEN 0
    ELSE LET e == CHOOSE x \in S : TRUE
         IN  (IF e.isfile THEN e.size ELSE 0) + SumSizes(S \ {e})

\* ------------------------------------------------------------------ dicts
DictSet(d, k, v) == [x \in DOMAIN d \cup {k} |-> IF x = k THEN v ELSE d[x]]
\* dict.get(k, default)
DictGet(d, k, default) == IF k \in DOMAIN d THEN d[k] ELSE default

\* ---------------------------------------------------------- analyze_source
\* The initial recommendations dict.
recommendations_default ==
    [onefile |-> TRUE, console |-> FALSE, debug |-> FALSE,
     upx_compress |-> FALSE, strip_debug |-> TRUE,
     optimization_level |-> "balanced"]

\* 'http' in open(f).read()[:1000]
http_in_prefix(e) == e.http >= 0 /\ e.http + 4 <= ReadPrefix

\* apply_size comparing the largest file, not the total, with the limit.
apply_size_largest(r, files) ==
    IF \E f \in files : f.isfile /\ f.size > SizeLimit
    THEN DictSet(DictSet(r, "onefile", FALSE), "optimization_level", "size")
    ELSE r

\* apply_size turning compression on for a large project.
apply_size_upx(r, files) ==
    IF SumSizes(files) > SizeLimit
    THEN DictSet(DictSet(DictSet(r, "onefile", FALSE), "upx_compress", TRUE),
                 "optimization_level", "size")
    ELSE r

\* apply_size taking a total of exactly the limit for a large project.
apply_size_at_limit(r, files) ==
    IF SumSizes(files) >= SizeLimit
    THEN DictSet(DictSet(r, "onefile", FALSE), "optimization_level", "size")
    ELSE r

\* "Large projects might benefit from directory mode"
apply_size(r, files) ==
    IF SumSizes(files) > SizeLimit
    THEN DictSet(DictSet(r, "onefile", FALSE), "optimization_level", "size")
    ELSE r

\* "Check for development files"
apply_dev_files(r, files) ==
    IF \E f \in files : endswith_any(f.name, dev_suffixes)
    THEN DictSet(DictSet(r, "strip_debug", TRUE), "optimization_level", "production")
    ELSE r

\* "Check for external dependencies": any(f.endswith('.js') and 'http' in
\* ... for f in os.listdir(source_path) if f.endswith('.html'))
has_external_js(files) ==
    \E f \in files :
        /\ endswith(f.name, html_ext)
        /\ endswith(f.name, js_ext)
        /\ http_in_prefix(f)

apply_external(r, files) ==
    IF has_external_js(files) THEN DictSet(r, "offline_mode", TRUE) ELSE r

\* apply_url without the offline_mode assignment.
apply_url_no_offline(r) ==
    DictSet(DictSet(r, "onefile", TRUE), "optimization_level", "portable")

\* "URL-based apps should be single file for portability"
apply_url(r) ==
    DictSet(DictSet(DictSet(r, "onefile", TRUE), "offline_mode", TRUE),
            "optimization_level", "portable")

Returned(v) == [raised |-> FALSE, value |-> v]
Raised(x) == [raised |-> TRUE, value |-> x]

\* analyze_source with the size check moved after the development-file check.
analyze_source_size_last(source_path, source_type) ==
    IF source_type = "folder"
    THEN IF os_path_exists(source_path)
         THEN IF os_listdir_ok(source_path)
              THEN LET files == os_listdir(source_path)
                   IN  Returned(apply_external(
                                  apply_size(
                                    apply_dev_files(recommendations_default, files),
                                    files),
                                  files))
              ELSE Raised("OSError")
         ELSE Returned(recommendations_default)
    ELSE IF source_type = "url"
         THEN Returned(apply_url(recommendations_default))
         ELSE Returned(recommendations_default)

\* analyze_source without the os.path.exists guard.
analyze_source_no_exists(source_path, source_type) ==
    IF source_type = "folder"
    THEN IF os_listdir_ok(source_path)
         THEN LET files == os_listdir(source_path)
              IN  Returned(apply_external(
                             apply_dev_files(
                               apply_size(recommendations_default, files),
                               files),
                             files))
         ELSE Raised("OSError")
    ELSE IF source_type = "url"
         THEN Returned(apply_url(recommendations_default))
         ELSE Returned(recommendations_default)

\* AutoOptionsSelector.analyze_source
analyze_source(source_path, source_type) ==
    IF source_type = "folder"
    THEN IF os_path_exists(source_path)
         THEN IF os_listdir_ok(source_path)
              THEN LET files == os_listdir(source_path)
                   IN  Returned(apply_external(
                                  apply_dev_files(
                                    apply_size(recommendations_default, files),
                                    files),
                                  files))
              ELSE Raised("OSError")
         ELSE Returned(recommendations_default)
    ELSE IF source_type = "url"
         THEN Returned(apply_url(recommendations_default))
         ELSE Returned(recommendations_default)

\* ------------------------------------------------------------- AppConfig
\* AppMetadata and BuildConfig with their field defaults.
AppConfig ==
    [metadata |-> [name |-> "MyHTMLApp"],
     build |-> [source_type |-> "folder", source_path |-> "",
                output_dir |-> "dist", offline_mode |-> FALSE,
                onefile |-> TRUE, console |-> FALSE, debug |-> FALSE,
                upx_compress |-> FALSE, icon_path |-> "",
                strip_debug |-> TRUE]]

\* A new AppConfig whose source path has been assigned.
InitialConfig == [AppConfig EXCEPT !.build.source_path = SitePath]

\* The configs a caller builds by assigning fields of an AppConfig.
Configs ==
    { [metadata |-> [name |-> n],
       build |-> [source_type |-> t, source_path |-> p, output_dir |-> o,
                  offline_mode |-> FALSE, onefile |-> f.onefile,
                  console |-> c, debug |-> f.debug,
                  upx_compress |-> f.upx_compress, icon_path |-> i,
                  strip_debug |-> f.strip_debug]] :
        n \in AppNames, t \in SourceTypes, p \in ConfigPaths,
        o \in OutputDirs, c \in BOOLEAN, i \in IconPaths, f \in BuildFlags }

\* ------------------------------------------------------------------ paths
\* os.path.join(p, c1, ..., cn)
os_path_join(p, cs) == p \o cs

\* The path and every ancestor of it.
Prefixes(p) == {SubSeq(p, 1, k) : k \in 1..Len(p)}

\* os.makedirs(p) without exist_ok: an existing directory is an error.
makedirs_ok_strict(d, p) == p \notin d /\ writable

\* os.makedirs(p, exist_ok=True) succeeds in the directory set d.
makedirs_ok(d, p) == p \in d \/ writable

\* The directories after os.makedirs(p, exist_ok=True) succeeded.
makedirs(d, p) == d \cup Prefixes(p)

\* ------------------------------------------ get_optimal_pyinstaller_options
hidden_imports ==
    <<"flask", "webview", "threading", "json", "os", "sys", "time",
      "urllib.parse", "base64", "hashlib", "datetime", "tempfile">>

IfSeq(c, s) == IF c THEN s ELSE <<>>

\* The paths derived from config.build.output_dir.
output_path(cfg) == <<cfg.build.output_dir>>
dist_path(cfg) == os_path_join(output_path(cfg), <<"dist">>)
work_path(cfg) == os_path_join(output_path(cfg), <<"build", "work">>)
html_assets(cfg) == os_path_join(output_path(cfg), <<"build", "html_assets">>)

\* base_options that already holds "--windowed".
base_options_windowed(cfg) ==
    << <<"--noconfirm">>, <<"--clean">>, <<"--windowed">>,
       <<"--name=", cfg.metadata.name>>,
       <<"--distpath=", dist_path(cfg)>>,
       <<"--workpath=", work_path(cfg)>> >>

\* options = ["--noconfirm", "--clean", f"--name=...", f"--distpath=...",
\* f"--workpath=..."]
base_options(cfg) ==
    << <<"--noconfirm">>, <<"--clean">>,
       <<"--name=", cfg.metadata.name>>,
       <<"--distpath=", dist_path(cfg)>>,
       <<"--workpath=", work_path(cfg)>> >>

\* mode_options without the else branch.
mode_options_no_else(analysis) ==
    IfSeq(analysis["onefile"], << <<"--onefile">> >>)

\* if analysis["onefile"]: "--onefile" else: "--onedir"
mode_options(analysis) ==
    IF analysis["onefile"] THEN << <<"--onefile">> >> ELSE << <<"--onedir">> >>

\* windowed_options following analysis["console"], which is always false.
windowed_options_always(cfg) == << <<"--windowed">> >>

\* if not config.build.console: "--windowed"
windowed_options(cfg) == IfSeq(~cfg.build.console, << <<"--windowed">> >>)

\* if analysis["strip_debug"]: "--strip"
strip_options(analysis) == IfSeq(analysis["strip_debug"], << <<"--strip">> >>)

\* if analysis["upx_compress"]: "--upx-dir=upx"
upx_options(analysis) == IfSeq(analysis["upx_compress"], << <<"--upx-dir=upx">> >>)

\* data_options with the ':' separator on every platform.
data_options_colon(cfg) ==
    IfSeq(cfg.build.source_type = "folder",
          << <<"--add-data=", html_assets(cfg), ":", "html_assets">> >>)

\* data_options testing for "not a url" instead of "a folder".
data_options_not_url(cfg) ==
    IfSeq(cfg.build.source_type # "url",
          IF platform = "win32"
          THEN << <<"--add-data=", html_assets(cfg), ";", "html_assets">> >>
          ELSE << <<"--add-data=", html_assets(cfg), ":", "html_assets">> >>)

\* "Add data files for folder mode"
data_options(cfg) ==
    IfSeq(cfg.build.source_type = "folder",
          IF platform = "win32"
          THEN << <<"--add-data=", html_assets(cfg), ";", "html_assets">> >>
          ELSE << <<"--add-data=", html_assets(cfg), ":", "html_assets">> >>)

\* for imp in hidden_imports: f"--hidden-import={imp}"
hidden_import_options ==
    [k \in 1..Len(hidden_imports) |-> <<"--hidden-import=", hidden_imports[k]>>]

\* icon_options without the os.path.exists test.
icon_options_no_exists(cfg) ==
    IfSeq(cfg.build.icon_path # "", << <<"--icon=", cfg.build.icon_path>> >>)

\* if config.build.icon_path and os.path.exists(config.build.icon_path)
icon_options(cfg) ==
    IfSeq(cfg.build.icon_path # "" /\ os_path_exists(cfg.build.icon_path),
          << <<"--icon=", cfg.build.icon_path>> >>)

\* build_options taking single-file, strip and compression from the config.
build_options_config_flags(cfg, analysis) ==
    base_options(cfg)
    \o (IF cfg.build.onefile THEN << <<"--onefile">> >> ELSE << <<"--onedir">> >>)
    \o windowed_options(cfg)
    \o IfSeq(cfg.build.strip_debug, << <<"--strip">> >>)
    \o IfSeq(cfg.build.upx_compress, << <<"--upx-dir=upx">> >>)
    \o data_options(cfg)
    \o hidden_import_options
    \o icon_options(cfg)

\* build_options with the data files added before the packaging mode.
build_options_data_first(cfg, analysis) ==
    base_options(cfg)
    \o data_options(cfg)
    \o mode_options(analysis)
    \o windowed_options(cfg)
    \o strip_options(analysis)
    \o upx_options(analysis)
    \o hidden_import_options
    \o icon_options(cfg)

\* The list built from the analysis and the config once the output
\* directories exist, in the order of the appends.
build_options(cfg, analysis) ==
    base_options(cfg)
    \o mode_options(analysis)
    \o windowed_options(cfg)
    \o strip_options(analysis)
    \o upx_options(analysis)
    \o data_options(cfg)
    \o hidden_import_options
    \o icon_options(cfg)

\* What the call returns or raises, and the directories that exist after it.
Outcome(r, d) == [raised |-> r.raised, value |-> r.value, dirs |-> d]

\* get_optimal_pyinstaller_options going on when os.makedirs fails.
get_optimal_pyinstaller_options_swallow(cfg) ==
    LET analysis == analyze_source(cfg.build.source_path, cfg.build.source_type)
        d3 == makedirs(makedirs(makedirs(dirs, output_path(cfg)), dist_path(cfg)),
                       work_path(cfg))
    IN  IF analysis.raised THEN Outcome(analysis, dirs)
        ELSE Outcome(Returned(build_options(cfg, analysis.value)),
                     IF writable THEN d3 ELSE dirs)

\* AutoOptionsSelector.get_optimal_pyinstaller_options
get_optimal_pyinstaller_options(cfg) ==
    LET analysis == analyze_source(cfg.build.source_path, cfg.build.source_type)
        d1 == makedirs(dirs, output_path(cfg))
        d2 == makedirs(d1, dist_path(cfg))
        d3 == makedirs(d2, work_path(cfg))
    IN  IF analysis.raised THEN Outcome(analysis, dirs)
        ELSE IF ~makedirs_ok(dirs, output_path(cfg)) THEN Outcome(Raised("OSError"), dirs)
        ELSE IF ~makedirs_ok(d1, dist_path(cfg)) THEN Outcome(Raised("OSError"), d1)
        ELSE IF ~makedirs_ok(d2, work_path(cfg)) THEN Outcome(Raised("OSError"), d2)
        ELSE Outcome(Returned(build_options(cfg, analysis.value)), d3)

\* ------------------------------------------------ _build_pyinstaller_command
sys_executable == <<"python">>

\* BuildEngine.build_dir and the main_script_path prepare_build returns.
build_dir(cfg) == os_path_join(output_path(cfg), <<"build">>)
main_script_path(cfg) == os_path_join(build_dir(cfg), <<"main.py">>)

\* _build_pyinstaller_command with the script added before the options.
build_pyinstaller_command_script_first(cfg, script) ==
    LET auto_options == get_optimal_pyinstaller_options(cfg)
    IN  IF auto_options.raised THEN auto_options
        ELSE Outcome(Returned(<<sys_executable, <<"-m">>, <<"PyInstaller">>, script>>
                              \o auto_options.value),
                     auto_options.dirs)

\* BuildEngine._build_pyinstaller_command
build_pyinstaller_command(cfg, script) ==
    LET auto_options == get_optimal_pyinstaller_options(cfg)
    IN  IF auto_options.raised THEN auto_options
        ELSE Outcome(Returned(<<sys_executable, <<"-m">>, <<"PyInstaller">> >>
                              \o auto_options.value \o <<script>>),
                     auto_options.dirs)

\* os.path.join(self.build_dir, "app_icon.ico"), as the string assigned to
\* config.build.icon_path
app_icon_path(cfg) ==
    IF cfg.build.output_dir = "dist" THEN "dist/build/app_icon.ico"
    ELSE "test_dist/build/app_icon.ico"
GeneratedIcons == {"dist/build/app_icon.ico", "test_dist/build/app_icon.ico"}

\* The directories get_optimal_pyinstaller_options needs under output
\* directory o, with the parents os.makedirs creates on the way.
RequiredDirs(o) == {<<o>>, <<o, "dist">>, <<o, "build">>, <<o, "build", "work">>}

\* ------------------------------------------------ the machinery at rest
\* The threads that call the selector concurrently.
Threads == {1, 2}

\* A thread that has not called anything yet.
IdleThread == [pc |-> "idle"]

\* A BuildEngine whose build has not been called.
IdleEngine ==
    [pc |-> "idle", prepared |-> FALSE, started |-> FALSE, cmd |-> <<>>,
     returncode |-> -1, wrote_report |-> FALSE, result |-> NoCall]

\* Nothing written yet: no generated icon, no file, no copy of the source.
NoAssets == [copied |-> FALSE]
NoOutputs == [icons |-> {}, files |-> {}, assets |-> NoAssets]

\* The fields of BuildConfig that _quick_build assigns from the analysis.
BuildVarNames == {"onefile", "console", "debug", "upx_compress", "strip_debug"}

\* The widget variables as the steps of the GUI create them from the config
\* (tk.StringVar(value=self.config.build.source_type), ...); no dialog open.
GuiOf(c) ==
    [pc |-> "idle",
     source_type_var |-> c.build.source_type,
     source_path_var |-> c.build.source_path,
     offline_var |-> c.build.offline_mode,
     build_vars |-> [onefile |-> c.build.onefile, console |-> c.build.console,
                     debug |-> c.build.debug, upx_compress |-> c.build.upx_compress,
                     strip_debug |-> c.build.strip_debug],
     shown |-> NoCall,
     started |-> NoCall]

\* WebViewManager.window before create_window has run.
None == "None"

\* A WebViewManager after __init__ (window is None, no observer), with the
\* fields its LiveReloadHandler will have: no event delivered, no timer
\* started.
TimerIds == 1..MaxTimers
\* No event has been delivered yet.
NoEvent == [src_path |-> <<>>, is_directory |-> FALSE]
IdleHandler ==
    [window |-> None, observer |-> FALSE,
     webview_window |-> None, pending_reload |-> FALSE, watcher |-> "idle",
     event |-> NoEvent, timers |-> [i \in TimerIds |-> "unused"],
     unserved |-> FALSE, failed |-> FALSE]

\* No thread is running, nothing has been started.
MachinesIdle ==
    /\ threads = [t \in Threads |-> IdleThread]
    /\ engine = IdleEngine
    /\ outputs = NoOutputs
    /\ gui = GuiOf(InitialConfig)
    /\ handler = IdleHandler

\* ---------------------------------------------------------------- actions
TypeOK ==
    /\ srcMode \in SrcModes
    /\ srcFiles \subseteq Catalog
    /\ Cardinality(srcFiles) <= MaxEntries
    /\ srcMode # "dir" => srcFiles = {}
    /\ iconExists \in BOOLEAN
    /\ writable \in BOOLEAN
    /\ platform \in Platforms
    /\ config.metadata.name \in AppNames
    /\ config.build.source_type \in SourceTypes
    /\ config.build.source_path \in ConfigPaths
    /\ config.build.output_dir \in OutputDirs
    /\ config.build.icon_path \in IconPaths \cup GeneratedIcons
    /\ \A v \in BuildVarNames \cup {"offline_mode"} : config.build[v] \in BOOLEAN
    /\ DOMAIN config.build = DOMAIN AppConfig.build
    /\ dirs \subseteq UNION {RequiredDirs(o) : o \in OutputDirs}
    /\ kept # NoCall => kept.call # NoCall /\ kept.config \in Configs

Init ==
    /\ srcMode = "missing"
    /\ srcFiles = {}
    /\ iconExists = FALSE
    /\ writable = TRUE
    /\ dirs = {}
    /\ platform \in Platforms
    /\ config = InitialConfig
    /\ ret = NoCall
    /\ kept = NoCall
    /\ MachinesIdle

\* The environment replaces what is at SitePath.
SetSrcMode(m) ==
    /\ m # srcMode
    /\ srcMode' = m
    /\ srcFiles' = {}
    /\ ret' = NoCall
    /\ kept' = NoCall
    /\ UNCHANGED <<iconExists, writable, dirs, platform, config, machines>>

\* The environment puts a file or a subdirectory into the source folder.
PutEntry(e) ==
    /\ srcMode = "dir"
    /\ e \notin srcFiles
    /\ Cardinality(srcFiles) < MaxEntries
    /\ srcFiles' = srcFiles \cup {e}
    /\ ret' = NoCall
    /\ kept' = NoCall
    /\ UNCHANGED <<srcMode, iconExists, writable, dirs, platform, config, machines>>

\* The environment removes an entry of the source folder.
RemoveEntry(e) ==
    /\ e \in srcFiles
    /\ srcFiles' = srcFiles \ {e}
    /\ ret' = NoCall
    /\ kept' = NoCall
    /\ UNCHANGED <<srcMode, iconExists, writable, dirs, platform, config, machines>>

\* AnalyzeSource over a recommendations dict shared by all calls: a key set
\* by one call is still there in the next.
AnalyzeSource_shared_dict(source_path, source_type) ==
    LET r == analyze_source(source_path, source_type)
        left == /\ ret.op = "analyze_source"
                /\ ~ret.result.raised
                /\ "offline_mode" \in DOMAIN ret.result.value
    IN  /\ ret' = [op |-> "analyze_source",
                   serial |-> IF ret.op = "analyze_source" THEN 1 - ret.serial ELSE 0,
                   source_path |-> source_path,
                   source_type |-> source_type,
                   result |-> IF ~r.raised /\ left
                              THEN Returned(DictSet(r.value, "offline_mode", TRUE))
                              ELSE r]
        /\ UNCHANGED <<fsvars, config, kept, machines>>

\* A caller runs AutoOptionsSelector.analyze_source(source_path, source_type);
\* serial tells a call from the one before it.
AnalyzeSource(source_path, source_type) ==
    /\ ret' = [op |-> "analyze_source",
               serial |-> IF ret.op = "analyze_source" THEN 1 - ret.serial ELSE 0,
               source_path |-> source_path,
               source_type |-> source_type,
               result |-> analyze_source(source_path, source_type)]
    /\ UNCHANGED <<fsvars, config, kept, machines>>

\* The caller keeps what the last call returned, with the config it had.
Keep ==
    /\ ret # NoCall
    /\ kept' = [call |-> ret, config |-> config]
    /\ UNCHANGED <<fsvars, config, ret, machines>>

Next ==
    \/ \E m \in SrcModes : SetSrcMode(m)
    \/ \E e \in Catalog : PutEntry(e)
    \/ \E e \in Catalog : RemoveEntry(e)
    \/ \E p \in Locations, t \in SourceTypes : AnalyzeSource(p, t)
    \/ Keep

Spec == Init /\ [][Next]_vars

\* ------------------------------------------------- planner specification
\* The source folders the planner is run on: nothing there, an empty folder,
\* a small site, a folder above 50 MiB, a folder above 50 MiB with a source
\* map, and a folder whose listing is denied.
PlanSources ==
    { [mode |-> "missing", files |-> {}],
      [mode |-> "dir", files |-> {}],
      [mode |-> "dir", files |-> {e \in Catalog : e.http >= 0 /\ e.http + 4 <= 128}],
      [mode |-> "dir", files |-> {e \in Catalog : e.size > SizeLimit}],
      [mode |-> "dir", files |-> {e \in Catalog : e.size > SizeLimit \/ endswith(e.name, map_ext)}],
      [mode |-> "noperm", files |-> {}] }

PlanInit ==
    /\ \E s \in PlanSources : srcMode = s.mode /\ srcFiles = s.files
    /\ iconExists = FALSE
    /\ writable = TRUE
    /\ dirs = {}
    /\ platform \in Platforms
    /\ config = InitialConfig
    /\ ret = NoCall
    /\ kept = NoCall
    /\ MachinesIdle

\* The configs one assignment to a field of c leads to (the build flags are
\* assigned together).
Assignments(c) ==
    {[c EXCEPT !.metadata.name = n] : n \in AppNames}
    \cup {[c EXCEPT !.build.source_type = t] : t \in SourceTypes}
    \cup {[c EXCEPT !.build.source_path = p] : p \in ConfigPaths}
    \cup {[c EXCEPT !.build.output_dir = o] : o \in OutputDirs}
    \cup {[c EXCEPT !.build.console = b] : b \in BOOLEAN}
    \cup {[c EXCEPT !.build.icon_path = i] : i \in IconPaths}
    \cup {[c EXCEPT !.build.onefile = f.onefile,
                    !.build.upx_compress = f.upx_compress,
                    !.build.strip_debug = f.strip_debug,
                    !.build.debug = f.debug] : f \in BuildFlags}

\* The caller assigns a field of its config.
Configure(c) ==
    /\ c # config
    /\ config' = c
    /\ ret' = NoCall
    /\ UNCHANGED <<fsvars, kept, machines>>

\* The environment creates or deletes the icon file.
SetIcon(b) ==
    /\ b # iconExists
    /\ iconExists' = b
    /\ ret' = NoCall
    /\ kept' = NoCall
    /\ UNCHANGED <<srcMode, srcFiles, writable, dirs, platform, config, machines>>

\* The environment makes the output volume read-only or writable.
SetWritable(b) ==
    /\ b # writable
    /\ writable' = b
    /\ ret' = NoCall
    /\ UNCHANGED <<srcMode, srcFiles, iconExists, dirs, platform, config, kept, machines>>

\* The environment deletes an output directory with everything below it.
RemoveTree(o) ==
    /\ <<o>> \in dirs
    /\ writable
    /\ dirs' = {d \in dirs : d[1] # o}
    /\ ret' = NoCall
    /\ UNCHANGED <<srcMode, srcFiles, iconExists, writable, platform, config, kept, machines>>

\* GetOptimalOptions appending to the list of the call before it.
GetOptimalOptions_accumulating ==
    LET r == get_optimal_pyinstaller_options(config)
        old == IF ret.op = "get_optimal_pyinstaller_options" /\ ~ret.result.raised
               THEN ret.result.value ELSE <<>>
    IN  /\ ret' = [op |-> "get_optimal_pyinstaller_options",
                   before |-> dirs,
                   result |-> [raised |-> r.raised,
                               value |-> IF r.raised THEN r.value ELSE old \o r.value]]
        /\ dirs' = r.dirs
        /\ UNCHANGED <<srcMode, srcFiles, iconExists, writable, platform, config, kept, machines>>

\* A caller runs AutoOptionsSelector.get_optimal_pyinstaller_options(config).
GetOptimalOptions ==
    LET r == get_optimal_pyinstaller_options(config)
    IN  /\ ret' = [op |-> "get_optimal_pyinstaller_options",
                   before |-> dirs,
                   result |-> [raised |-> r.raised, value |-> r.value]]
        /\ dirs' = r.dirs
        /\ UNCHANGED <<srcMode, srcFiles, iconExists, writable, platform, config, kept, machines>>

\* A BuildEngine over config runs _build_pyinstaller_command(main_script_path)
\* with the script path prepare_build returns.
BuildCommand ==
    LET r == build_pyinstaller_command(config, main_script_path(config))
    IN  /\ ret' = [op |-> "_build_pyinstaller_command",
                   main_script_path |-> main_script_path(config),
                   before |-> dirs,
                   result |-> [raised |-> r.raised, value |-> r.value]]
        /\ dirs' = r.dirs
        /\ UNCHANGED <<srcMode, srcFiles, iconExists, writable, platform, config, kept, machines>>

PlanNext ==
    \/ \E c \in Assignments(config) : Configure(c)
    \/ \E b \in BOOLEAN : SetIcon(b)
    \/ \E b \in BOOLEAN : SetWritable(b)
    \/ \E o \in OutputDirs : RemoveTree(o)
    \/ GetOptimalOptions
    \/ BuildCommand

PlanSpec == PlanInit /\ [][PlanNext]_vars

\* ------------------------------------- planner called again and again
\* The assignments between two calls of the planner that are compared: the
\* output directory, the source type and the build flags.
MemAssignments(c) ==
    {[c EXCEPT !.build.source_type = t] : t \in SourceTypes}
    \cup {[c EXCEPT !.build.output_dir = o] : o \in OutputDirs}
    \cup {[c EXCEPT !.build.onefile = f.onefile,
                    !.build.upx_compress = f.upx_compress,
                    !.build.strip_debug = f.strip_debug,
                    !.build.debug = f.debug] : f \in BuildFlags}

\* Only the planner creates output directories here.
MemNext ==
    \/ \E c \in MemAssignments(config) : Configure(c)
    \/ \E o \in OutputDirs : RemoveTree(o)
    \/ GetOptimalOptions
    \/ Keep

MemSpec == PlanInit /\ [][MemNext]_vars

\* ------------------------------------ planner over partial output trees
\* The environment creates one directory whose parent exists (os.mkdir).
Mkdir(p) ==
    /\ writable
    /\ p \notin dirs
    /\ Len(p) > 1 => SubSeq(p, 1, Len(p) - 1) \in dirs
    /\ dirs' = dirs \cup {p}
    /\ ret' = NoCall
    /\ UNCHANGED <<srcMode, srcFiles, iconExists, writable, platform, config, kept, machines>>

\* One config, whose output tree the environment builds up and tears down.
DirNext ==
    \/ \E p \in RequiredDirs(config.build.output_dir) : Mkdir(p)
    \/ RemoveTree(config.build.output_dir)
    \/ \E b \in BOOLEAN : SetWritable(b)
    \/ GetOptimalOptions
    \/ Keep

DirSpec == PlanInit /\ [][DirNext]_vars

\* ------------------------------------------ calls on concurrent threads
\* The configs the threads are given: each thread has one of its own.
ThreadConfigs ==
    { [InitialConfig EXCEPT !.build.source_type = t, !.build.output_dir = o] :
        t \in {"folder", "url"}, o \in OutputDirs }

ThreadOps == {"analyze_source", "get_optimal_pyinstaller_options"}

\* os.makedirs ignoring exist_ok: mkdir failing on an existing directory is
\* raised to the caller.
exist_ok_never(d, p) == FALSE

\* os.makedirs(..., exist_ok=True): mkdir failing on p is passed over when p
\* is a directory.
exist_ok(d, p) == p \in d

\* The mkdir system calls of the three os.makedirs, in order: the program
\* counter at each, the directory it creates and the counter after it.
MkdirSteps(cfg) ==
    [mk_output |-> [path |-> output_path(cfg), next |-> "mk_dist"],
     mk_dist |-> [path |-> dist_path(cfg), next |-> "stat_build"],
     mk_build |-> [path |-> build_dir(cfg), next |-> "mk_work"],
     mk_work |-> [path |-> work_path(cfg), next |-> "options"]]

\* A thread is handed its own config and calls one of the two methods.
ThreadStart(t, op, c) ==
    /\ threads[t].pc = "idle"
    /\ threads' = [threads EXCEPT ![t] =
                      [pc |-> "analyze", op |-> op, cfg |-> c, made |-> {},
                       passed |-> {}]]
    /\ UNCHANGED <<fsvars, config, ret, kept, aroundThreads>>

\* The thread runs analyze_source (it only reads the source folder, which no
\* thread writes); analyze_source returns here, and
\* get_optimal_pyinstaller_options goes on unless the analysis raised.
ThreadAnalyze(t) ==
    /\ threads[t].pc = "analyze"
    /\ LET th == threads[t]
           analysis == analyze_source(th.cfg.build.source_path, th.cfg.build.source_type)
       IN  threads' = [threads EXCEPT ![t] =
              IF th.op = "analyze_source" \/ analysis.raised
              THEN [th EXCEPT !.pc = "done"] @@ [result |-> analysis]
              ELSE [th EXCEPT !.pc = "mk_output"] @@ [analysis |-> analysis.value]]
    /\ UNCHANGED <<fsvars, config, ret, kept, aroundThreads>>

\* One mkdir system call of os.makedirs: it creates the directory, or fails
\* on an existing one, which exist_ok=True passes over.
ThreadMkdir(t) ==
    /\ threads[t].pc \in DOMAIN MkdirSteps(InitialConfig)
    /\ LET th == threads[t]
           step == MkdirSteps(th.cfg)[th.pc]
       IN  IF step.path \notin dirs /\ writable
           THEN /\ dirs' = dirs \cup {step.path}
                /\ threads' = [threads EXCEPT ![t].pc = step.next,
                                              ![t].made = @ \cup {step.path}]
           ELSE /\ dirs' = dirs
                /\ threads' = [threads EXCEPT ![t] =
                      IF exist_ok(dirs, step.path)
                      THEN [th EXCEPT !.pc = step.next,
                                      !.passed = @ \cup {step.path}]
                      ELSE [th EXCEPT !.pc = "done"] @@ [result |-> Raised("OSError")]]
    /\ UNCHANGED <<srcMode, srcFiles, iconExists, writable, platform, config, ret, kept, aroundThreads>>

\* os.makedirs(work_path) looks whether the parent <output_dir>/build exists
\* and creates it first when it does not.
ThreadStat(t) ==
    /\ threads[t].pc = "stat_build"
    /\ threads' = [threads EXCEPT ![t].pc =
                      IF build_dir(threads[t].cfg) \in dirs THEN "mk_work" ELSE "mk_build"]
    /\ UNCHANGED <<fsvars, config, ret, kept, aroundThreads>>

\* The thread builds the list of options and returns it.
ThreadOptions(t) ==
    /\ threads[t].pc = "options"
    /\ LET th == threads[t]
       IN  threads' = [threads EXCEPT ![t] =
              [th EXCEPT !.pc = "done"]
                 @@ [result |-> Returned(build_options(th.cfg, th.analysis))]]
    /\ UNCHANGED <<fsvars, config, ret, kept, aroundThreads>>

ThreadNext ==
    \/ \E t \in Threads, op \in ThreadOps, c \in ThreadConfigs : ThreadStart(t, op, c)
    \/ \E t \in Threads : ThreadAnalyze(t)
    \/ \E t \in Threads : ThreadMkdir(t)
    \/ \E t \in Threads : ThreadStat(t)
    \/ \E t \in Threads : ThreadOptions(t)

ThreadSpec == PlanInit /\ [][ThreadNext]_vars

\* ------------------------------------------------------ BuildEngine.build
\* BuildEngine.dist_dir
dist_dir(cfg) == os_path_join(output_path(cfg), <<"dist">>)
\* source_build_dir of prepare_build
source_build_dir(cfg) == os_path_join(build_dir(cfg), <<"html_assets">>)
\* report_path of build
report_path(cfg) == os_path_join(dist_dir(cfg), <<"build_report.json">>)

\* f"{name}.exe" below a directory
ExeFile(dir, name) == [dir |-> dir, file |-> <<name, ".exe">>]

\* BuildEngine._get_exe_path
get_exe_path(cfg) ==
    IF cfg.build.onefile
    THEN ExeFile(dist_dir(cfg), cfg.metadata.name)
    ELSE ExeFile(os_path_join(dist_dir(cfg), <<cfg.metadata.name>>), cfg.metadata.name)

\* shutil.copytree(source_path, source_build_dir) succeeds.
copytree_ok(source_path) == source_path = SitePath /\ srcMode = "dir" /\ writable

\* The build is not running.
EngineIdle == engine.pc \in {"idle", "done"}

\* "except Exception as e": build returns the failure dict.
BuildFailed(e) ==
    [engine EXCEPT !.pc = "done",
                   !.result = Returned([success |-> FALSE, error |-> e])]

\* The assignments to the config between two builds.
BuildAssignments(c) ==
    {[c EXCEPT !.build.source_type = t] : t \in SourceTypes}
    \cup {[c EXCEPT !.build.icon_path = i] : i \in IconPaths}
    \cup {[c EXCEPT !.build.onefile = f.onefile,
                    !.build.upx_compress = f.upx_compress,
                    !.build.strip_debug = f.strip_debug,
                    !.build.debug = f.debug] : f \in BuildFlags}

\* engine = BuildEngine(config); engine.build() is called.
Build ==
    /\ EngineIdle
    /\ engine' = [IdleEngine EXCEPT !.pc = "prepare_dirs"]
    /\ UNCHANGED <<fsvars, config, ret, kept, aroundEngine, outputs>>

\* prepare_build: "Create build directories"
PrepareDirs ==
    /\ engine.pc = "prepare_dirs"
    /\ LET d1 == makedirs(dirs, build_dir(config))
           d2 == makedirs(d1, dist_dir(config))
       IN  IF ~makedirs_ok(dirs, build_dir(config))
           THEN engine' = BuildFailed("OSError") /\ dirs' = dirs
           ELSE IF ~makedirs_ok(d1, dist_dir(config))
           THEN engine' = BuildFailed("OSError") /\ dirs' = d1
           ELSE engine' = [engine EXCEPT !.pc = "copy_source"] /\ dirs' = d2
    /\ UNCHANGED <<srcMode, srcFiles, iconExists, writable, platform, config, ret, kept,
                   aroundEngine, outputs>>

\* prepare_build copying onto what an earlier build left in html_assets.
CopySource_onto_old ==
    /\ engine.pc = "copy_source"
    /\ IF config.build.source_type # "folder"
       THEN engine' = [engine EXCEPT !.pc = "icon"] /\ outputs' = outputs
       ELSE IF copytree_ok(config.build.source_path)
       THEN /\ engine' = [engine EXCEPT !.pc = "icon"]
            /\ outputs' = [outputs EXCEPT !.assets =
                  [copied |-> TRUE, path |-> source_build_dir(config),
                   content |-> srcFiles \cup
                       (IF outputs.assets.copied THEN outputs.assets.content ELSE {})]]
       ELSE engine' = BuildFailed("OSError") /\ outputs' = outputs
    /\ UNCHANGED <<fsvars, config, ret, kept, aroundEngine>>

\* prepare_build: "Copy source files if folder mode": an existing html_assets
\* is removed and the source folder is copied.
CopySource ==
    /\ engine.pc = "copy_source"
    /\ IF config.build.source_type # "folder"
       THEN engine' = [engine EXCEPT !.pc = "icon"] /\ outputs' = outputs
       ELSE IF copytree_ok(config.build.source_path)
       THEN /\ engine' = [engine EXCEPT !.pc = "icon"]
            /\ outputs' = [outputs EXCEPT !.assets =
                  [copied |-> TRUE, path |-> source_build_dir(config),
                   content |-> srcFiles]]
       ELSE engine' = BuildFailed("OSError") /\ outputs' = outputs
    /\ UNCHANGED <<fsvars, config, ret, kept, aroundEngine>>

\* prepare_build: "Generate application icon"; the generated path is
\* assigned to config.build.icon_path.
GenerateIcon ==
    /\ engine.pc = "icon"
    /\ IF config.build.icon_path # "" /\ os_path_exists(config.build.icon_path)
       THEN engine' = [engine EXCEPT !.pc = "main_script"]
            /\ UNCHANGED <<outputs, config>>
       ELSE IF writable
       THEN /\ engine' = [engine EXCEPT !.pc = "main_script"]
            /\ outputs' = [outputs EXCEPT !.icons = @ \cup {app_icon_path(config)}]
            /\ config' = [config EXCEPT !.build.icon_path = app_icon_path(config)]
       ELSE engine' = BuildFailed("OSError") /\ UNCHANGED <<outputs, config>>
    /\ UNCHANGED <<fsvars, ret, kept, aroundEngine>>

\* prepare_build: "Create main application script"; prepare_build returns.
WriteMainScript ==
    /\ engine.pc = "main_script"
    /\ IF writable
       THEN /\ engine' = [engine EXCEPT !.pc = "command", !.prepared = TRUE]
            /\ outputs' = [outputs EXCEPT !.files = @ \cup {main_script_path(config)}]
       ELSE engine' = BuildFailed("OSError") /\ outputs' = outputs
    /\ UNCHANGED <<fsvars, config, ret, kept, aroundEngine>>

\* build: cmd = self._build_pyinstaller_command(main_script_path)
Command ==
    /\ engine.pc = "command"
    /\ LET r == build_pyinstaller_command(config, main_script_path(config))
       IN  /\ dirs' = r.dirs
           /\ engine' = IF r.raised THEN BuildFailed(r.value)
                        ELSE [engine EXCEPT !.pc = "subprocess", !.cmd = r.value]
    /\ UNCHANGED <<srcMode, srcFiles, iconExists, writable, platform, config, ret, kept,
                   aroundEngine, outputs>>

\* build: subprocess.run(cmd, ...) starts the packaging tool.
StartSubprocess ==
    /\ engine.pc = "subprocess"
    /\ engine' = [engine EXCEPT !.pc = "running", !.started = TRUE]
    /\ UNCHANGED <<fsvars, config, ret, kept, aroundEngine, outputs>>

\* The return code of the packaging tool is not looked at.
SubprocessExit_unchecked(code) ==
    /\ engine.pc = "running"
    /\ engine' = [engine EXCEPT !.returncode = code, !.pc = "report"]
    /\ UNCHANGED <<fsvars, config, ret, kept, aroundEngine, outputs>>

\* The packaging tool exits: "if result.returncode != 0: raise Exception".
SubprocessExit(code) ==
    /\ engine.pc = "running"
    /\ engine' = IF code # 0
                 THEN [BuildFailed("Build failed") EXCEPT !.returncode = code]
                 ELSE [engine EXCEPT !.returncode = code, !.pc = "report"]
    /\ UNCHANGED <<fsvars, config, ret, kept, aroundEngine, outputs>>

\* build: the report is made with _get_exe_path, saved as build_report.json
\* and returned.
Report ==
    /\ engine.pc = "report"
    /\ IF writable
       THEN /\ outputs' = [outputs EXCEPT !.files = @ \cup {report_path(config)}]
            /\ engine' = [engine EXCEPT
                  !.pc = "done", !.wrote_report = TRUE,
                  !.result = Returned([success |-> TRUE,
                                       exe_path |-> get_exe_path(config)])]
       ELSE engine' = BuildFailed("OSError") /\ outputs' = outputs
    /\ UNCHANGED <<fsvars, config, ret, kept, aroundEngine>>

BuildNext ==
    \/ \E c \in BuildAssignments(config) : EngineIdle /\ Configure(c)
    \/ \E e \in Catalog : EngineIdle /\ RemoveEntry(e)
    \/ \E b \in BOOLEAN : EngineIdle /\ SetIcon(b)
    \/ \E b \in BOOLEAN : SetWritable(b)
    \/ Build
    \/ PrepareDirs
    \/ CopySource
    \/ GenerateIcon
    \/ WriteMainScript
    \/ Command
    \/ StartSubprocess
    \/ \E code \in {0, 1} : SubprocessExit(code)
    \/ Report

\* The builds run on one platform.
BuildInit == PlanInit /\ platform = "win32"

BuildSpec == BuildInit /\ [][BuildNext]_vars

Range(f) == {f[i] : i \in DOMAIN f}

\* ------------------------------------------------- ModernGUI quick build
\* ModernGUI._sync_config_from_ui: the config takes the values of the widget
\* variables.
sync_config_from_ui(c, ui) ==
    [c EXCEPT !.build.source_type = ui.source_type_var,
              !.build.source_path = ui.source_path_var,
              !.build.offline_mode = ui.offline_var,
              !.build.onefile = ui.build_vars.onefile,
              !.build.console = ui.build_vars.console,
              !.build.debug = ui.build_vars.debug,
              !.build.upx_compress = ui.build_vars.upx_compress,
              !.build.strip_debug = ui.build_vars.strip_debug]

\* "Update config with optimal settings"
apply_analysis(c, analysis) ==
    [c EXCEPT !.build.onefile = analysis["onefile"],
              !.build.console = analysis["console"],
              !.build.debug = analysis["debug"],
              !.build.upx_compress = analysis["upx_compress"],
              !.build.strip_debug = analysis["strip_debug"],
              !.build.offline_mode = DictGet(analysis, "offline_mode", FALSE)]

\* os.path.exists(os.path.join(source_path, "index.html"))
index_html_exists(source_path) ==
    /\ source_path = SitePath
    /\ srcMode = "dir"
    /\ \E f \in srcFiles : f.name = <<"i", "n", "d", "e", "x">> \o html_ext

\* ModernGUI._validate_config
validate_config(c) ==
    /\ c.build.source_path # ""
    /\ c.build.source_type = "folder"
          => os_path_exists(c.build.source_path) /\ index_html_exists(c.build.source_path)
    /\ c.metadata.name # ""

\* The check boxes of the Build step the user ticks and unticks.
TickedVars == {"onefile", "console"}

\* The user picks the source type, edits the source path or ticks a box.
SetSourceType(t) ==
    /\ gui.pc = "idle" /\ gui.source_type_var # t
    /\ gui' = [gui EXCEPT !.source_type_var = t]
    /\ UNCHANGED <<fsvars, config, ret, kept, aroundGui>>

SetSourcePath(p) ==
    /\ gui.pc = "idle" /\ gui.source_path_var # p
    /\ gui' = [gui EXCEPT !.source_path_var = p]
    /\ UNCHANGED <<fsvars, config, ret, kept, aroundGui>>

ToggleOffline ==
    /\ gui.pc = "idle"
    /\ gui' = [gui EXCEPT !.offline_var = ~@]
    /\ UNCHANGED <<fsvars, config, ret, kept, aroundGui>>

ToggleBuildVar(v) ==
    /\ gui.pc = "idle"
    /\ gui' = [gui EXCEPT !.build_vars[v] = ~@]
    /\ UNCHANGED <<fsvars, config, ret, kept, aroundGui>>

\* ModernGUI._quick_build up to the confirmation dialog: the config is
\* synchronized, analyzed and given the analysis values, which the dialog
\* shows.  An exception of analyze_source ends the callback.
QuickBuild ==
    /\ gui.pc = "idle"
    /\ config.build.source_path # ""
    /\ LET synced == sync_config_from_ui(config, gui)
           analysis == analyze_source(synced.build.source_path, synced.build.source_type)
       IN  IF analysis.raised
           THEN config' = synced /\ gui' = gui
           ELSE /\ config' = apply_analysis(synced, analysis.value)
                /\ gui' = [gui EXCEPT !.pc = "confirm", !.shown = analysis.value,
                                      !.started = NoCall]
    /\ UNCHANGED <<fsvars, ret, kept, aroundGui>>

\* The user answers yes: ModernGUI._start_build synchronizes the config,
\* validates it and starts the build worker with it.
Accept ==
    /\ gui.pc = "confirm"
    /\ LET synced == sync_config_from_ui(config, gui)
       IN  /\ config' = synced
           /\ gui' = IF validate_config(synced)
                     THEN [gui EXCEPT !.pc = "building", !.started = synced]
                     ELSE [gui EXCEPT !.pc = "idle", !.shown = NoCall]
    /\ UNCHANGED <<fsvars, ret, kept, aroundGui>>

\* The user answers no.
Decline ==
    /\ gui.pc = "confirm"
    /\ gui' = [gui EXCEPT !.pc = "idle", !.shown = NoCall]
    /\ UNCHANGED <<fsvars, config, ret, kept, aroundGui>>

\* The build worker ends and the progress dialog is closed.
CloseProgress ==
    /\ gui.pc = "building"
    /\ gui' = [gui EXCEPT !.pc = "idle", !.shown = NoCall, !.started = NoCall]
    /\ UNCHANGED <<fsvars, config, ret, kept, aroundGui>>

GuiNext ==
    \/ \E t \in {"folder", "url"} : SetSourceType(t)
    \/ \E p \in ConfigPaths : SetSourcePath(p)
    \/ ToggleOffline
    \/ \E v \in TickedVars : ToggleBuildVar(v)
    \/ QuickBuild
    \/ Accept
    \/ Decline
    \/ CloseProgress

\* The GUI runs on one platform.
GuiInit == PlanInit /\ platform = "win32"

GuiSpec == GuiInit /\ [][GuiNext]_vars

\* ------------------------------------------------------ LiveReloadHandler
\* str.lower() on the letters of the watched names
lower_char(c) ==
    IF c = "C" THEN "c" ELSE IF c = "S" THEN "s" ELSE IF c = "T" THEN "t"
    ELSE IF c = "Y" THEN "y" ELSE IF c = "L" THEN "l" ELSE IF c = "E" THEN "e"
    ELSE c
lower(str) == [i \in DOMAIN str |-> lower_char(str[i])]

\* reload_extensions = {'.html', '.css', '.js', '.json', '.xml'}
reload_extensions ==
    {html_ext, <<".", "c", "s", "s">>, js_ext, <<".", "j", "s", "o", "n">>,
     <<".", "x", "m", "l">>}

\* LiveReloadHandler._should_reload
should_reload(filepath) == \E ext \in reload_extensions : endswith(lower(filepath), ext)

\* The events the observer delivers: a page, a style sheet with an upper-case
\* name, a text file, and a directory named like a script.
WatchEvents ==
    { [src_path |-> <<"i", "n", "d", "e", "x">> \o html_ext, is_directory |-> FALSE],
      [src_path |-> <<"S", "T", "Y", "L", "E", ".", "C", "S", "S">>, is_directory |-> FALSE],
      [src_path |-> <<"n", "o", "t", "e", "s", ".", "t", "x", "t">>, is_directory |-> FALSE],
      [src_path |-> <<"l", "i", "b", "s">> \o js_ext, is_directory |-> TRUE] }

\* os.path.isdir(source_path)
os_path_isdir(source_path) == source_path = SitePath /\ srcMode \in {"dir", "noperm"}

\* WebViewManager.create_window: self.window = webview.create_window(...)
CreateWindow ==
    /\ handler.window = None
    /\ handler' = [handler EXCEPT !.window = "window"]
    /\ UNCHANGED <<fsvars, config, ret, kept, aroundHandler>>

\* WebViewManager.setup_live_reload(source_path), called once by start: the
\* handler is made with the value self.window has now, and the observer is
\* started.
SetupLiveReload ==
    /\ ~handler.observer
    /\ os_path_isdir(config.build.source_path)
    /\ handler' = [handler EXCEPT !.webview_window = handler.window, !.observer = TRUE]
    /\ UNCHANGED <<fsvars, config, ret, kept, aroundHandler>>

\* The timers that have been started and whose _reload has not finished.
Outstanding == {i \in TimerIds : handler.timers[i] \in {"waiting", "finally"}}

\* The observer thread calls on_modified(event): the two tests of on_modified.
\* unserved records that a reloadable file changed and no reload has been
\* made since.
OnModified(event) ==
    /\ handler.observer
    /\ handler.watcher = "idle"
    /\ LET reloadable == ~event.is_directory /\ should_reload(event.src_path)
       IN  handler' = [handler EXCEPT
              !.event = event,
              !.unserved = @ \/ reloadable,
              !.watcher = IF reloadable /\ ~handler.pending_reload THEN "set" ELSE "idle"]
    /\ UNCHANGED <<fsvars, config, ret, kept, aroundHandler>>

\* on_modified: self.pending_reload = True
SetPending ==
    /\ handler.watcher = "set"
    /\ handler' = [handler EXCEPT !.pending_reload = TRUE, !.watcher = "start"]
    /\ UNCHANGED <<fsvars, config, ret, kept, aroundHandler>>

\* on_modified: threading.Timer(self.debounce_ms / 1000, self._reload).start()
StartTimer ==
    /\ handler.watcher = "start"
    /\ \E k \in TimerIds : handler.timers[k] = "unused"
    /\ LET i == CHOOSE k \in TimerIds :
                    /\ handler.timers[k] = "unused"
                    /\ \A j \in TimerIds : j < k => handler.timers[j] # "unused"
       IN  handler' = [handler EXCEPT !.timers[i] = "waiting", !.watcher = "idle"]
    /\ UNCHANGED <<fsvars, config, ret, kept, aroundHandler>>

\* A timer fires and its thread runs the try block of _reload: with a window,
\* evaluate_js('window.location.reload()') reloads it or raises.
Reload(i, raises) ==
    /\ handler.timers[i] = "waiting"
    /\ raises => handler.webview_window # None
    /\ handler' = [handler EXCEPT
          !.timers[i] = "finally",
          !.failed = raises,
          !.unserved = IF handler.webview_window # None /\ ~raises THEN FALSE ELSE @]
    /\ UNCHANGED <<fsvars, config, ret, kept, aroundHandler>>

\* _reload resetting pending_reload at the end of the try block, not in a
\* finally clause.
ReloadFinally_in_try(i) ==
    /\ handler.timers[i] = "finally"
    /\ handler' = [handler EXCEPT
          !.timers[i] = "unused",
          !.pending_reload = IF handler.failed THEN @ ELSE FALSE]
    /\ UNCHANGED <<fsvars, config, ret, kept, aroundHandler>>

\* _reload: finally: self.pending_reload = False; the timer thread ends.
ReloadFinally(i) ==
    /\ handler.timers[i] = "finally"
    /\ handler' = [handler EXCEPT !.timers[i] = "unused", !.pending_reload = FALSE]
    /\ UNCHANGED <<fsvars, config, ret, kept, aroundHandler>>

\* A WebViewManager on one platform; start calls setup_live_reload before
\* create_window, another caller may create the window first.
ReloadInit == PlanInit /\ platform = "linux"

ReloadNext ==
    \/ CreateWindow
    \/ SetupLiveReload
    \/ \E event \in WatchEvents : OnModified(event)
    \/ SetPending
    \/ StartTimer
    \/ \E i \in TimerIds, raises \in BOOLEAN : Reload(i, raises)
    \/ \E i \in TimerIds : ReloadFinally(i)

\* The observer thread and the timer threads keep running; no event has to
\* come.
ReloadSpec ==
    /\ ReloadInit
    /\ [][ReloadNext]_vars
    /\ WF_vars(SetPending)
    /\ WF_vars(StartTimer)
    /\ WF_vars(\E i \in TimerIds, raises \in BOOLEAN : Reload(i, raises))
    /\ WF_vars(\E i \in TimerIds : ReloadFinally(i))

\* ------------------------------------------------------- analyzer claims
Analyzed == ret.op = "analyze_source"
AnalyzedFolder == Analyzed /\ ret.source_type = "folder"
\* The call was given an existing folder that can be listed.
AnalyzedListedFolder ==
    AnalyzedFolder /\ ret.source_path = SitePath /\ srcMode = "dir"
TotalSize == SumSizes({f \in srcFiles : f.isfile})
HasDevName ==
    \E f \in srcFiles :
        \E x \in {map_ext, ts_ext, scss_ext, less_ext} :
            /\ Len(f.name) >= Len(x)
            /\ \A i \in 1..Len(x) : f.name[Len(f.name) - Len(x) + i] = x[i]

UrlRecommendation ==
    [onefile |-> TRUE, console |-> FALSE, debug |-> FALSE,
     upx_compress |-> FALSE, strip_debug |-> TRUE,
     offline_mode |-> TRUE, optimization_level |-> "portable"]

\* C1: for every location string and every state of the file system,
\* analyze_source with source type 'url' returns onefile=true,
\* offline_mode=true, optimization_level='portable' and console, debug,
\* upx_compress, strip_debug at their defaults: one fixed recommendation.
C1_UrlRecommendation ==
    (Analyzed /\ ret.source_type = "url")
        => /\ ~ret.result.raised
           /\ ret.result.value = UrlRecommendation

\* A url analysis of a location that is also a populated folder.
C1_Witness ==
    /\ Analyzed /\ ret.source_type = "url"
    /\ ret.source_path = SitePath
    /\ srcMode = "dir" /\ srcFiles # {}
    /\ ret.result.value.optimization_level = "portable"

\* C2: for an existing (listable) folder whose top-level regular files total
\* more than 50 MiB and whose top level holds no .map/.ts/.scss/.less name,
\* analyze_source returns onefile=false and optimization_level='size'.
C2_LargeFolderSize ==
    (AnalyzedListedFolder /\ TotalSize > 52428800 /\ ~HasDevName)
        => /\ ~ret.result.raised
           /\ ret.result.value.onefile = FALSE
           /\ ret.result.value.optimization_level = "size"

\* A folder that passes 50 MiB only by the sum of two files was analyzed.
C2_Witness ==
    /\ AnalyzedListedFolder /\ ~HasDevName
    /\ TotalSize > 52428800
    /\ \A f \in srcFiles : f.size <= 52428800
    /\ ret.result.value.optimization_level = "size"

\* C3: for an existing (listable) folder with at least one top-level name
\* ending in .map, .ts, .scss or .less, analyze_source returns
\* optimization_level='production' and strip_debug=true whatever the total
\* size: the dev-artifact check overrides a 'size' profile.
C3_DevFilesProduction ==
    (AnalyzedListedFolder /\ HasDevName)
        => /\ ~ret.result.raised
           /\ ret.result.value.optimization_level = "production"
           /\ ret.result.value.strip_debug = TRUE

\* A folder of more than 50 MiB with a dev-artifact name was analyzed.
C3_Witness ==
    /\ AnalyzedListedFolder /\ HasDevName
    /\ TotalSize > 52428800
    /\ ret.result.value.optimization_level = "production"
    /\ ret.result.value.onefile = FALSE

\* C4: for an existing folder whose top level contains an .html file and a
\* .js file with 'http' within its first 1000 bytes, analyze_source returns
\* offline_mode=true.
C4_ExternalJsOffline ==
    ( /\ AnalyzedListedFolder
      /\ \E h \in srcFiles : h.isfile /\ endswith(h.name, html_ext)
      /\ \E j \in srcFiles :
            /\ j.isfile /\ endswith(j.name, js_ext)
            /\ j.http >= 0 /\ j.http + 4 <= 1000 )
        => /\ ~ret.result.raised
           /\ DictGet(ret.result.value, "offline_mode", FALSE) = TRUE

\* C5: for a folder source whose path does not exist, analyze_source raises
\* nothing and returns the defaults: onefile=true, console=false,
\* debug=false, upx_compress=false, strip_debug=true, offline_mode=false
\* (read as every caller reads it, get('offline_mode', False)),
\* optimization_level='balanced'.
C5_MissingFolderDefaults ==
    (AnalyzedFolder /\ (ret.source_path # SitePath \/ srcMode = "missing"))
        => /\ ~ret.result.raised
           /\ ret.result.value.onefile = TRUE
           /\ ret.result.value.console = FALSE
           /\ ret.result.value.debug = FALSE
           /\ ret.result.value.upx_compress = FALSE
           /\ ret.result.value.strip_debug = TRUE
           /\ DictGet(ret.result.value, "offline_mode", FALSE) = FALSE
           /\ ret.result.value.optimization_level = "balanced"
           /\ DOMAIN ret.result.value \subseteq
                {"onefile", "console", "debug", "upx_compress", "strip_debug",
                 "offline_mode", "optimization_level"}

\* A folder analysis of the path of the source folder while nothing is there.
C5_Witness ==
    /\ AnalyzedFolder /\ ret.source_path = SitePath /\ srcMode = "missing"
    /\ ~ret.result.raised

\* C6: analyze_source never raises to its caller for an I/O problem (listing
\* denied, path exists but is not a directory): it still returns a
\* recommendation.
C6_NeverRaises == Analyzed => ~ret.result.raised

\* -------------------------------------------------------- planner claims
\* get_optimal_pyinstaller_options returned a list.
Planned == ret.op = "get_optimal_pyinstaller_options" /\ ~ret.result.raised
\* _build_pyinstaller_command returned a command.
Commanded == ret.op = "_build_pyinstaller_command" /\ ~ret.result.raised

\* The positions of a list that hold a directive with the given prefix.
Positions(list, flag) == {i \in 1..Len(list) : list[i][1] = flag}

\* C7: every list returned by get_optimal_pyinstaller_options contains
\* exactly one packaging-mode directive: '--onefile' or '--onedir', never
\* both and never neither.
C7_OnePackagingMode ==
    Planned =>
        Cardinality(Positions(ret.result.value, "--onefile")
                    \cup Positions(ret.result.value, "--onedir")) = 1

\* A list with '--onedir' was returned for a folder above 50 MiB.
C7_Witness ==
    /\ Planned
    /\ config.build.source_type = "folder"
    /\ TotalSize > 52428800
    /\ Positions(ret.result.value, "--onedir") # {}
    /\ Positions(ret.result.value, "--onefile") = {}

\* C8: get_optimal_pyinstaller_options emits an '--add-data=' directive if
\* and only if config.build.source_type is 'folder'; for a url source no
\* data-inclusion directive is emitted.
C8_AddDataIffFolder ==
    Planned =>
        (Positions(ret.result.value, "--add-data=") # {}
            <=> config.build.source_type = "folder")

\* A list without a data-inclusion directive was returned for a url source
\* whose location is also an existing folder.
C8_Witness ==
    /\ Planned
    /\ config.build.source_type = "url"
    /\ config.build.source_path = SitePath /\ srcMode = "dir"
    /\ Positions(ret.result.value, "--add-data=") = {}

\* The place of a directive in the order name, distribution path, work path,
\* packaging mode, windowed, compression, strip, data-inclusion, hidden
\* imports, icon (0: a directive the order does not mention).
Rank(d) ==
    CASE d[1] = "--name=" -> 1
      [] d[1] = "--distpath=" -> 2
      [] d[1] = "--workpath=" -> 3
      [] d[1] \in {"--onefile", "--onedir"} -> 4
      [] d[1] = "--windowed" -> 5
      [] d[1] = "--upx-dir=upx" -> 6
      [] d[1] = "--strip" -> 7
      [] d[1] = "--add-data=" -> 8
      [] d[1] = "--hidden-import=" -> 9
      [] d[1] = "--icon=" -> 10
      [] OTHER -> 0

\* C9: in every directive list the directives that are present appear in the
\* relative order name, distribution path, work path, packaging mode,
\* windowed, compression, strip, data-inclusion, hidden imports, icon.
C9_DirectiveOrder ==
    Planned =>
        \A i, j \in 1..Len(ret.result.value) :
            (i < j /\ Rank(ret.result.value[i]) > 0 /\ Rank(ret.result.value[j]) > 0)
                => Rank(ret.result.value[i]) <= Rank(ret.result.value[j])

\* A list holding the windowed, strip, data-inclusion and icon directives
\* was returned.
C9_Witness ==
    /\ Planned
    /\ Positions(ret.result.value, "--windowed") # {}
    /\ Positions(ret.result.value, "--strip") # {}
    /\ Positions(ret.result.value, "--add-data=") # {}
    /\ Positions(ret.result.value, "--icon=") # {}

\* C10: in every packaging command the entry-point script path is the last
\* argument, after every directive the planner produces for the config, and
\* it appears exactly once.
C10_ScriptLast ==
    Commanded =>
        LET cmd == ret.result.value
            options == get_optimal_pyinstaller_options(config).value
        IN  /\ cmd[Len(cmd)] = ret.main_script_path
            /\ Cardinality({i \in 1..Len(cmd) : cmd[i] = ret.main_script_path}) = 1
            /\ \A k \in 1..Len(options) :
                   \E i \in 1..(Len(cmd) - 1) : cmd[i] = options[k]

\* A command was built whose argument before the script is the icon
\* directive.
C10_Witness ==
    /\ Commanded
    /\ Len(ret.result.value) > 4
    /\ ret.result.value[Len(ret.result.value) - 1] = <<"--icon=", IconPath>>
    /\ ret.result.value[Len(ret.result.value)] = <<config.build.output_dir, "build", "main.py">>

\* C11: '--windowed' is emitted if and only if config.build.console is
\* false, and the name, distpath and workpath directives are built from
\* config.metadata.name and config.build.output_dir, whatever the analysis
\* recommends.
C11_ConfigDirectives ==
    Planned =>
        LET list == ret.result.value
        IN  /\ Positions(list, "--windowed") # {} <=> ~config.build.console
            /\ \A i \in Positions(list, "--name=") :
                   list[i] = <<"--name=", config.metadata.name>>
            /\ \A i \in Positions(list, "--distpath=") :
                   list[i] = <<"--distpath=", <<config.build.output_dir, "dist">> >>
            /\ \A i \in Positions(list, "--workpath=") :
                   list[i] = <<"--workpath=", <<config.build.output_dir, "build", "work">> >>
            /\ Positions(list, "--name=") # {}
            /\ Positions(list, "--distpath=") # {}
            /\ Positions(list, "--workpath=") # {}

\* A list without '--windowed' was returned for a config with console=true,
\* a name and an output directory that are not the defaults, while the
\* analysis recommends console=false.
C11_Witness ==
    /\ Planned
    /\ config.build.console
    /\ config.metadata.name = "TestApp"
    /\ config.build.output_dir = "test_dist"
    /\ ~analyze_source(config.build.source_path, config.build.source_type).value.console
    /\ Positions(ret.result.value, "--windowed") = {}

\* The logical option a directive encodes: its prefix, the packaging mode for
\* both mode directives, and the module for a hidden import.
OptionKey(d) ==
    IF d[1] = "--hidden-import=" THEN d
    ELSE IF d[1] \in {"--onefile", "--onedir"} THEN <<"packaging mode">>
    ELSE <<d[1]>>

\* C13: no directive list encodes the same logical option twice: name,
\* distpath, workpath, packaging mode, windowed, strip, upx-dir, add-data and
\* icon occur at most once and no hidden-import module is listed twice.
C13_NoDuplicateOption ==
    Planned =>
        \A i, j \in 1..Len(ret.result.value) :
            i < j => OptionKey(ret.result.value[i]) # OptionKey(ret.result.value[j])

\* The longest list was returned: every optional directive the planner can
\* emit and the twelve hidden imports.
C13_Witness ==
    /\ Planned
    /\ Len(ret.result.value) = 22
    /\ Cardinality(Positions(ret.result.value, "--hidden-import=")) = 12

\* C17: an '--icon=' directive is emitted if and only if
\* config.build.icon_path is non-empty and names an existing path; when
\* emitted it carries exactly the configured icon path.
C17_IconIffExists ==
    Planned =>
        LET list == ret.result.value
        IN  /\ Positions(list, "--icon=") # {}
                 <=> (config.build.icon_path # ""
                      /\ config.build.icon_path = IconPath /\ iconExists)
            /\ \A i \in Positions(list, "--icon=") :
                   list[i] = <<"--icon=", config.build.icon_path>>

\* A list without an icon directive was returned for a config whose icon
\* path is set but names no file.
C17_Witness ==
    /\ Planned
    /\ config.build.icon_path = IconPath
    /\ ~iconExists
    /\ Positions(ret.result.value, "--icon=") = {}

\* C18: the data-inclusion directive separates source from destination with
\* ';' when sys.platform is win32 and ':' on every other platform, and the
\* destination is always 'html_assets'.
C18_PlatformSeparator ==
    Planned =>
        \A i \in Positions(ret.result.value, "--add-data=") :
            /\ ret.result.value[i][3] = (IF platform = "win32" THEN ";" ELSE ":")
            /\ ret.result.value[i][4] = "html_assets"

\* A list with a ';'-separated data-inclusion directive was returned on
\* win32.
C18_Witness ==
    /\ Planned
    /\ platform = "win32"
    /\ \E i \in Positions(ret.result.value, "--add-data=") :
           ret.result.value[i][3] = ";"

\* C19: every recommendation carries exactly one optimization profile that
\* agrees with its flags: optimization_level='portable' implies onefile=true
\* and offline_mode=true.
C19_PortableConsistent ==
    (Analyzed /\ ~ret.result.raised) =>
        /\ ret.result.value.optimization_level
               \in {"balanced", "size", "production", "portable"}
        /\ ret.result.value.optimization_level = "portable" =>
               /\ ret.result.value.onefile = TRUE
               /\ DictGet(ret.result.value, "offline_mode", FALSE) = TRUE

\* A 'portable' recommendation was returned for an empty location.
C19_Witness ==
    /\ Analyzed /\ ~ret.result.raised
    /\ ret.source_path = ""
    /\ ret.result.value.optimization_level = "portable"

\* ---------------------------------------------- claims about two calls
\* The caller has kept the list of an earlier planner call.
KeptPlanned ==
    /\ kept # NoCall
    /\ kept.call.op = "get_optimal_pyinstaller_options"
    /\ ~kept.call.result.raised

\* Configs a and b differ at most in build.onefile, upx_compress,
\* strip_debug and debug.
SameButFlags(a, b) ==
    [a EXCEPT !.build.onefile = b.build.onefile,
              !.build.upx_compress = b.build.upx_compress,
              !.build.strip_debug = b.build.strip_debug,
              !.build.debug = b.build.debug] = b

\* C12: two calls of get_optimal_pyinstaller_options on the same file system
\* with configs that differ only in build.onefile, upx_compress, strip_debug
\* or debug return identical directive lists.
C12_FlagsIgnored ==
    (Planned /\ KeptPlanned /\ SameButFlags(kept.config, config))
        => ret.result.value = kept.call.result.value

\* After a kept call the caller flipped the four flags and called again: the
\* config now asks for a single file and the list still says '--onedir'.
C12_Witness ==
    /\ Planned /\ KeptPlanned
    /\ SameButFlags(kept.config, config)
    /\ kept.config.build.onefile = FALSE
    /\ config.build.onefile = TRUE
    /\ config.build.strip_debug = TRUE
    /\ Positions(ret.result.value, "--onedir") # {}

\* The three directories the planner creates for the config.
OutputTree(c) ==
    { <<c.build.output_dir>>,
      <<c.build.output_dir, "dist">>,
      <<c.build.output_dir, "build", "work">> }

\* The source of the config is a folder whose listing fails.
SourceUnlistable ==
    /\ config.build.source_type = "folder"
    /\ config.build.source_path = SitePath
    /\ srcMode \in {"noperm", "notdir"}

PlannerCalled == ret.op = "get_optimal_pyinstaller_options"

\* C14: whenever get_optimal_pyinstaller_options returns a list, the
\* directories <output_dir>, <output_dir>/dist and <output_dir>/build/work
\* exist; directories that existed before the call are never the reason of
\* an error, and the list is the one returned when none of them existed.
C14_DirsExistIdempotent ==
    /\ Planned => OutputTree(config) \subseteq dirs
    /\ (PlannerCalled /\ ret.result.raised)
          => (SourceUnlistable
              \/ (~writable /\ ~(OutputTree(config) \subseteq ret.before)))
    /\ (Planned /\ KeptPlanned /\ kept.config = config)
          => ret.result.value = kept.call.result.value

\* The planner was called first with no output directory and its list kept,
\* then again with <output_dir> present but <output_dir>/dist missing, and
\* returned the same list.
C14_Witness ==
    /\ Planned /\ KeptPlanned /\ kept.config = config
    /\ kept.call.before = {}
    /\ <<config.build.output_dir>> \in ret.before
    /\ <<config.build.output_dir, "dist">> \notin ret.before
    /\ ret.result.value = kept.call.result.value
    /\ OutputTree(config) \subseteq dirs

\* C15: if creating an output directory fails,
\* get_optimal_pyinstaller_options raises a filesystem error and returns no
\* list; it never returns a list while a required directory is missing.
C15_MkdirFailureRaises ==
    /\ (PlannerCalled /\ ~writable /\ ~(OutputTree(config) \subseteq ret.before))
          => (ret.result.raised /\ ret.result.value = "OSError")
    /\ (PlannerCalled /\ ~(OutputTree(config) \subseteq dirs))
          => ret.result.raised

\* The planner raised on a read-only volume where <output_dir> existed and
\* <output_dir>/dist did not, for a source that can be analyzed.
C15_Witness ==
    /\ PlannerCalled /\ ret.result.raised
    /\ ~writable /\ ~SourceUnlistable
    /\ <<config.build.output_dir>> \in ret.before
    /\ <<config.build.output_dir, "dist">> \notin ret.before
    /\ <<config.build.output_dir, "dist">> \notin dirs

C21_UnknownKindRejected ==
    (PlannerCalled /\ config.build.source_type \notin {"folder", "url"})
        => ret.result.raised

\* What a call of op with cfg returns or raises when it runs alone.
Alone(op, cfg) ==
    IF op = "analyze_source"
    THEN analyze_source(cfg.build.source_path, cfg.build.source_type)
    ELSE LET r == get_optimal_pyinstaller_options(cfg)
         IN  [raised |-> r.raised, value |-> r.value]

ThreadDone(t) == threads[t].pc = "done"

\* C22: when two threads call analyze_source or
\* get_optimal_pyinstaller_options concurrently, each with its own config,
\* every call returns what it returns when run alone, also when both use the
\* same output directory.
C22_Reentrant ==
    \A t \in Threads :
        ThreadDone(t) => threads[t].result = Alone(threads[t].op, threads[t].cfg)

\* Both threads have run get_optimal_pyinstaller_options on the same output
\* directory with different source types; each of them created a part of the
\* tree and passed over a directory the other one had created.
C22_Witness ==
    /\ \A t \in Threads :
          /\ ThreadDone(t)
          /\ threads[t].op = "get_optimal_pyinstaller_options"
          /\ ~threads[t].result.raised
          /\ threads[t].made # {}
          /\ threads[t].passed # {}
    /\ threads[1].cfg.build.output_dir = threads[2].cfg.build.output_dir
    /\ threads[1].cfg.build.source_type # threads[2].cfg.build.source_type
    /\ threads[1].result # threads[2].result

\* C23: for an existing folder, analyze_source returns onefile = false
\* exactly when the sizes of the regular files directly inside it sum to
\* more than 52428800 bytes; subdirectories and dev-artifact names do not
\* change that.
C23_SizeBoundary ==
    AnalyzedListedFolder
        => /\ ~ret.result.raised
           /\ (ret.result.value["onefile"] = FALSE) <=> (TotalSize > 52428800)

\* A folder of exactly 50 MiB of regular files, with a subdirectory that has
\* a size of its own and a dev-artifact name, was analyzed: onefile is true.
C23_Witness ==
    /\ AnalyzedListedFolder
    /\ TotalSize = 52428800
    /\ \E f \in srcFiles : ~f.isfile /\ f.size > 0 /\ endswith_any(f.name, dev_suffixes)
    /\ ret.result.value["onefile"] = TRUE

\* C24: whatever the source and the flags of the config, the analysis has
\* console = false, debug = false, upx_compress = false and
\* strip_debug = true, and the list has '--strip' and no '--upx-dir=upx'.
C24_ConstantFlags ==
    Planned
        => LET analysis == analyze_source(config.build.source_path,
                                          config.build.source_type)
           IN  /\ ~analysis.raised
               /\ analysis.value["console"] = FALSE
               /\ analysis.value["debug"] = FALSE
               /\ analysis.value["upx_compress"] = FALSE
               /\ analysis.value["strip_debug"] = TRUE
               /\ Cardinality(Positions(ret.result.value, "--strip")) = 1
               /\ Positions(ret.result.value, "--upx-dir=upx") = {}

\* The planner ran on a folder above 50 MiB with a source map, for a config
\* asking for debug, compression and no stripping.
C24_Witness ==
    /\ Planned
    /\ config.build.source_type = "folder" /\ config.build.source_path = SitePath
    /\ TotalSize > SizeLimit /\ HasDevName
    /\ config.build.debug /\ config.build.upx_compress /\ ~config.build.strip_debug
    /\ config.build.console
    /\ Positions(ret.result.value, "--strip") # {}

\* build has returned a dict.
Built == engine.pc = "done" /\ ~engine.result.raised
BuildSucceeded == Built /\ engine.result.value.success

\* C25: the exe_path of a successful build is <dist>/<name>.exe when the
\* command of that build had '--onefile', and <dist>/<name>/<name>.exe when
\* it had '--onedir'.
C25_ExePathAgreesWithMode ==
    BuildSucceeded
        => LET name == config.metadata.name
               exe_path == engine.result.value.exe_path
           IN  /\ <<"--onefile">> \in Range(engine.cmd)
                     => exe_path = ExeFile(dist_dir(config), name)
               /\ <<"--onedir">> \in Range(engine.cmd)
                     => exe_path = ExeFile(os_path_join(dist_dir(config), <<name>>), name)

\* Between two states the packaging subprocess is started.
SubprocessStarts == engine.pc = "subprocess" /\ engine'.pc = "running"

\* C26: when build starts the packaging subprocess, prepare_build has
\* completed: the build and dist directories exist, a folder source has been
\* copied afresh to <output_dir>/build/html_assets, the path the '--add-data'
\* directive of the command names, and main.py is written; a build whose
\* preparation has not completed never starts the subprocess.
C26_PrepareBeforeSubprocess ==
    [][ /\ SubprocessStarts
           => /\ engine.prepared
              /\ {build_dir(config), dist_dir(config)} \subseteq dirs
              /\ main_script_path(config) \in outputs.files
              /\ config.build.source_type = "folder"
                    => /\ outputs.assets.copied
                       /\ outputs.assets.content = srcFiles
                       /\ outputs.assets.path = os_path_join(output_path(config),
                                                             <<"build", "html_assets">>)
                       /\ \E i \in DOMAIN engine.cmd :
                             /\ engine.cmd[i][1] = "--add-data="
                             /\ engine.cmd[i][2] = outputs.assets.path
        /\ engine'.started => engine'.prepared ]_vars

\* The subprocess of a later build of a folder source is running (the
\* build_report.json of an earlier build is there) and html_assets holds
\* what the source folder holds now.
C26_Witness ==
    /\ engine.pc = "running"
    /\ config.build.source_type = "folder"
    /\ srcFiles # {}
    /\ outputs.assets.copied
    /\ outputs.assets.content = srcFiles
    /\ report_path(config) \in outputs.files

QuickBuildStarted == gui.pc = "building"

\* C28: an accepted Quick Build starts with onefile, console, debug,
\* upx_compress, strip_debug and offline_mode of the config equal to the
\* analyze_source values the confirmation dialog showed.
C28_QuickBuildUsesAnalysis ==
    QuickBuildStarted
        => /\ \A v \in BuildVarNames : gui.started.build[v] = gui.shown[v]
           /\ gui.started.build.offline_mode = DictGet(gui.shown, "offline_mode", FALSE)

\* C29: every on_modified event for a reloadable file is eventually followed
\* by a reload of the window that begins after the event.
C29_NoModificationLost == handler.unserved ~> ~handler.unserved

\* C30: at most one debounce timer is outstanding; the observer thread goes
\* on to start one only when pending_reload is false; pending_reload is true
\* while a timer is outstanding and is reset when its _reload has finished,
\* also when evaluate_js raised: it is true only while a timer is
\* outstanding or about to be started.
C30_OneTimerOutstanding ==
    /\ Cardinality(Outstanding) <= 1
    /\ Outstanding # {} => handler.pending_reload
    /\ handler.watcher = "set" => ~handler.pending_reload /\ Outstanding = {}
    /\ handler.watcher = "start" => Outstanding = {}
    /\ handler.pending_reload => (Outstanding # {} \/ handler.watcher = "start")

\* The last evaluate_js raised, and a timer started by a later event is
\* waiting.
C30_Witness ==
    /\ handler.failed
    /\ handler.webview_window # None
    /\ \E i \in TimerIds : handler.timers[i] = "waiting"
    /\ Cardinality(Outstanding) = 1
    /\ handler.pending_reload
    /\ handler.watcher = "idle"

====
